---- MODULE Spec2Model ----
(***************************************************************************)
(* Model of the Stripe Terminal REST facade: the Express application of    *)
(* src/src/index.js and the three routers kept in                          *)
(* src/src/routes/reader.routes.js (reader routes, payment routes and the  *)
(* payment-status router).                                                 *)
(*                                                                         *)
(* One request is followed from its arrival, through the global            *)
(* middleware and the routing table, through every await of its handler,   *)
(* to its response.  The Stripe SDK is the environment: every awaited call *)
(* either resolves with one of the values the SDK can give or rejects.     *)
(*                                                                         *)
(* Amounts are JavaScript numbers; the model keeps them in thousandths     *)
(* (a request amount of 1000 is 1000000) so that fractional amounts and    *)
(* Math.round are exact.  Payment intent ids are 1..MaxIntents, 0 is a     *)
(* missing id; a missing string is "".                                     *)
(***************************************************************************)
EXTENDS Integers, Sequences, FiniteSets, TLC

\* Bound on the payment intents Stripe holds during one run.
MaxIntents == 2

\* Request amounts, in thousandths: -1, 0, 0.005, 1.5 and 1000.
AmountMillis == {0 - 1000, 0, 5, 1500, 1000000}

ReaderIds == {"tmr_1", "tmr_2"}

NodeEnvs == {"development", "production"}

VARIABLES
  nodeEnv,   \* process.env.NODE_ENV
  req,       \* the request being served
  body,      \* req.body as the route handler sees it
  pc,        \* "idle", "await" (an SDK promise is pending), "responded"
  calls,     \* the SDK calls made for this request, in order
  locals,    \* the handler's const bindings made so far
  res,       \* the response sent
  intents,   \* Stripe's payment intents: intents[id] is the intent's state
  others     \* the requests in flight whose handlers are not running now

vars == <<nodeEnv, req, body, pc, calls, locals, res, intents, others>>

----------------------------------------------------------------------------
\* Values

Null == [null |-> TRUE]

NoReq == [verb |-> "none"]

NoRes == [code |-> 0]

NoOut == [ok |-> TRUE, value |-> Null]

NoLocals == [paymentIntent |-> Null]

\* A step of a handler: it either awaits an SDK call or sends a response.
Call(method, args) == [kind |-> "call", method |-> method, args |-> args]

Respond(code, json) == [kind |-> "respond", code |-> code, body |-> json]

\* config/simulated-reader: testMode.defaultCurrency
defaultCurrency == "usd"

----------------------------------------------------------------------------
\* Requests

BaseReq ==
  [verb |-> "GET", prefix |-> "/health", route |-> "/",
   contentType |-> "application/json", malformed |-> FALSE,
   sigValid |-> FALSE, eventType |-> "none",
   hasAmount |-> FALSE, amount |-> 0, currency |-> "",
   readerId |-> "", simulated |-> "absent",
   registration_code |-> "", label |-> "", location |-> "",
   payment_intent |-> 0, paymentIntentId |-> 0]

Simulateds == {"absent", "false", "true"}

HealthReqs == {BaseReq}

ListReqs == {[BaseReq EXCEPT !.prefix = "/api/readers"]}

RegisterReqs ==
  {[BaseReq EXCEPT !.verb = "POST", !.prefix = "/api/readers",
                   !.route = "/register", !.registration_code = c,
                   !.label = l, !.location = o, !.simulated = s] :
     c \in {"", "REG-CODE"}, l \in {"", "Test Reader"},
     o \in {"", "tml_1"}, s \in Simulateds}

GetReaderReqs ==
  {[BaseReq EXCEPT !.prefix = "/api/readers", !.route = "/:readerId",
                   !.readerId = i] : i \in ReaderIds}

CreateIntentReqs ==
  {[BaseReq EXCEPT !.verb = "POST", !.prefix = "/api/payments",
                   !.route = "/create-payment-intent",
                   !.hasAmount = TRUE, !.amount = a, !.readerId = i,
                   !.simulated = s, !.malformed = m] :
     a \in AmountMillis, i \in ReaderIds \cup {""}, s \in Simulateds,
     m \in BOOLEAN}
  \cup
  {[BaseReq EXCEPT !.verb = "POST", !.prefix = "/api/payments",
                   !.route = "/create-payment-intent",
                   !.hasAmount = TRUE, !.amount = 1500,
                   !.readerId = i, !.currency = "eur",
                   !.simulated = "true"] : i \in ReaderIds}
  \cup
  {[BaseReq EXCEPT !.verb = "POST", !.prefix = "/api/payments",
                   !.route = "/create-payment-intent",
                   !.readerId = i] : i \in ReaderIds \cup {""}}

IntentIdReqs(route) ==
  {[BaseReq EXCEPT !.verb = "POST", !.prefix = "/api/payments",
                   !.route = route, !.paymentIntentId = p] :
     p \in 1..MaxIntents}

WebhookReqs ==
  {[BaseReq EXCEPT !.verb = "POST", !.prefix = "/api/payments",
                   !.route = "/webhook", !.contentType = t,
                   !.malformed = m, !.sigValid = v, !.eventType = e] :
     t \in {"application/json", "text/plain"}, m \in BOOLEAN,
     v \in BOOLEAN,
     e \in {"payment_intent.succeeded", "payment_intent.payment_failed",
            "payment_intent.canceled", "charge.refunded"}}

ProcessReqs ==
  {[BaseReq EXCEPT !.verb = "POST", !.prefix = "/api/payments",
                   !.route = "/process-payment/:readerId",
                   !.readerId = i, !.payment_intent = p] :
     i \in ReaderIds, p \in 0..MaxIntents}

SimulateReqs ==
  {[BaseReq EXCEPT !.verb = "POST", !.prefix = "/api/payments",
                   !.route = "/simulate-payment/:readerId",
                   !.readerId = i] : i \in ReaderIds}

CreateAndProcessReqs ==
  {[BaseReq EXCEPT !.verb = "POST", !.prefix = "/api/payments",
                   !.route = "/create-and-process-payment/:readerId",
                   !.hasAmount = h, !.amount = a, !.readerId = i,
                   !.simulated = s] :
     h \in BOOLEAN, a \in AmountMillis, i \in ReaderIds,
     s \in Simulateds}

PaymentStatusReqs ==
  {[BaseReq EXCEPT !.prefix = "/api/payment-status",
                   !.route = "/:paymentIntentId",
                   !.paymentIntentId = p] : p \in 1..MaxIntents}

Requests ==
  HealthReqs \cup ListReqs \cup RegisterReqs \cup GetReaderReqs
  \cup CreateIntentReqs \cup IntentIdReqs("/capture-payment/:paymentIntentId")
  \cup IntentIdReqs("/cancel-payment/:paymentIntentId") \cup WebhookReqs
  \cup ProcessReqs \cup SimulateReqs \cup CreateAndProcessReqs
  \cup PaymentStatusReqs

----------------------------------------------------------------------------
\* Global middleware and routing (index.js)

\* express.json(): a body of type application/json is parsed into an object
\* (a malformed one is passed to next(err)); any other body is left alone
\* and req.body is the empty object.
JsonParser(r) ==
  IF r.contentType = "application/json"
  THEN IF r.malformed THEN "error" ELSE "parsed"
  ELSE "empty"

\* express.raw({type: "application/json"}) of the webhook route: it skips a
\* request whose body was already parsed, and one of another type.
RawParser(r, b) ==
  IF b = "parsed" THEN b
  ELSE IF r.contentType = "application/json" THEN "buffer"
  ELSE b

\* The routers index.js mounts, by path prefix.
Mounted(prefix) ==
  CASE prefix = "/api/payments" -> "payment.routes"
    [] prefix = "/api/readers" -> "reader.routes"
    [] OTHER -> "none"

\* The routes of reader.routes, by verb and path.
readerRoutes(verb, route) ==
  CASE verb = "GET" /\ route = "/" -> "listReaders"
    [] verb = "POST" /\ route = "/register" -> "register"
    [] verb = "GET" /\ route = "/:readerId" -> "getReader"
    [] OTHER -> "none"

\* The routes of payment.routes.
paymentRoutes(verb, route) ==
  CASE verb = "POST" /\ route = "/create-payment-intent"
         -> "createPaymentIntent"
    [] verb = "POST" /\ route = "/capture-payment/:paymentIntentId"
         -> "capturePayment"
    [] verb = "POST" /\ route = "/cancel-payment/:paymentIntentId"
         -> "cancelPayment"
    [] verb = "POST" /\ route = "/webhook" -> "webhook"
    [] verb = "POST" /\ route = "/process-payment/:readerId"
         -> "processPayment"
    [] verb = "POST" /\ route = "/simulate-payment/:readerId"
         -> "simulatePayment"
    [] verb = "POST" /\ route = "/create-and-process-payment/:readerId"
         -> "createAndProcessPayment"
    [] OTHER -> "none"

\* The routes of the payment-status router.
paymentStatusRoutes(verb, route) ==
  CASE verb = "GET" /\ route = "/:paymentIntentId" -> "paymentStatus"
    [] OTHER -> "none"

\* The handler the application runs for a request, "none" when no route
\* matches (Express then answers 404 itself).
HandlerOf(r) ==
  IF r.verb = "GET" /\ r.prefix = "/health" /\ r.route = "/" THEN "health"
  ELSE CASE Mounted(r.prefix) = "reader.routes"
              -> readerRoutes(r.verb, r.route)
         [] Mounted(r.prefix) = "payment.routes"
              -> paymentRoutes(r.verb, r.route)
         [] Mounted(r.prefix) = "payment-status.routes"
              -> paymentStatusRoutes(r.verb, r.route)
         [] OTHER -> "none"

\* The error-handling middleware of index.js.
errorMiddleware(env, err) ==
  Respond(500,
    IF env = "development"
    THEN [status |-> "error", message |-> "Something went wrong!",
          error |-> err.message]
    ELSE [status |-> "error", message |-> "Something went wrong!"])

\* Express's own answer when nothing matched.
notFound == Respond(404, [text |-> "Cannot " \o "route"])

----------------------------------------------------------------------------
\* Helpers of the handlers

\* `simulated = false` in the destructuring: absent means false.
Simulated(r) == r.simulated = "true"

\* !amount || amount <= 0
InvalidAmount(r) == (~r.hasAmount \/ r.amount = 0) \/ r.amount <= 0

\* Math.round(amount * 100), on thousandths: round half up.
ToCents(milli) == (milli + 5) \div 10

\* `currency = defaultCurrency` in the destructuring.
Currency(r) == IF r.currency = "" THEN defaultCurrency ELSE r.currency

\* The catch block every JSON handler ends with.
Caught(error) == Respond(500, [status |-> "error", message |-> error.message])

----------------------------------------------------------------------------
\* Route handlers.  Each is the handler's code as one function of where the
\* handler stands: at = "start" when it is entered, otherwise the SDK method
\* whose promise just settled with `out` ([ok |-> TRUE, value |-> v] or
\* [ok |-> FALSE, error |-> e]); loc holds the bindings made so far.  The
\* result is the next step: the next SDK call awaited or the response sent.

health(r, at, out, loc) == Respond(200, [status |-> "ok"])

listReaders(r, at, out, loc) ==
  IF at = "start" THEN Call("terminal.readers.list", [none |-> TRUE])
  ELSE IF ~out.ok THEN Caught(out.error)
  ELSE Respond(200, [status |-> "success", readers |-> out.value.data])

\* register preferring a registration code the request supplies.
register_SuppliedCodeFirst(r, at, out, loc) ==
  IF at = "start" THEN
    LET simulated == Simulated(r)
        regCode == IF r.registration_code # "" THEN r.registration_code
                   ELSE IF simulated THEN "simulated-wpe" ELSE ""
    IN  IF regCode = ""
        THEN Respond(400, [status |-> "error",
               message |-> "Registration code is required for physical readers"])
        ELSE Call("terminal.readers.create",
               [registration_code |-> regCode,
                label |-> IF r.label # "" THEN r.label
                          ELSE IF simulated THEN "Simulated Reader" ELSE "",
                location |-> IF r.location # "" THEN r.location
                             ELSE IF simulated THEN "test_mode" ELSE ""])
  ELSE IF ~out.ok THEN Caught(out.error)
  ELSE Respond(201, [status |-> "success", reader |-> out.value])

register(r, at, out, loc) ==
  IF at = "start" THEN
    LET simulated == Simulated(r)
        regCode == IF simulated THEN "simulated-wpe" ELSE r.registration_code
    IN  IF regCode = ""
        THEN Respond(400, [status |-> "error",
               message |-> "Registration code is required for physical readers"])
        ELSE Call("terminal.readers.create",
               [registration_code |-> regCode,
                label |-> IF r.label # "" THEN r.label
                          ELSE IF simulated THEN "Simulated Reader" ELSE "",
                location |-> IF r.location # "" THEN r.location
                             ELSE IF simulated THEN "test_mode" ELSE ""])
  ELSE IF ~out.ok THEN Caught(out.error)
  ELSE Respond(201, [status |-> "success", reader |-> out.value])

getReader(r, at, out, loc) ==
  IF at = "start" THEN Call("terminal.readers.retrieve", [id |-> r.readerId])
  ELSE IF ~out.ok THEN Caught(out.error)
  ELSE Respond(200, [status |-> "success", reader |-> out.value])

\* createPaymentIntent without the check that the reader is online.
createPaymentIntent_NoOnlineCheck(r, at, out, loc) ==
  IF at = "start" THEN
    IF InvalidAmount(r)
    THEN Respond(400, [status |-> "error",
                       message |-> "Valid amount is required"])
    ELSE IF r.readerId = ""
    THEN Respond(400, [status |-> "error",
                       message |-> "Reader ID is required"])
    ELSE Call("terminal.readers.retrieve", [id |-> r.readerId])
  ELSE IF ~out.ok THEN Caught(out.error)
  ELSE IF at = "terminal.readers.retrieve" THEN
    IF out.value = Null
    THEN Respond(404, [status |-> "error", message |-> "Reader not found"])
    ELSE Call("paymentIntents.create",
           [amount |-> ToCents(r.amount), currency |-> Currency(r),
            payment_method_types |-> <<"card_present">>,
            capture_method |-> "manual",
            metadata |-> [readerId |-> r.readerId]])
  ELSE Respond(200, [status |-> "success", paymentIntent |-> out.value])

\* createPaymentIntent leaving the capture to Stripe.
createPaymentIntent_AutomaticCapture(r, at, out, loc) ==
  IF at = "start" THEN
    IF InvalidAmount(r)
    THEN Respond(400, [status |-> "error",
                       message |-> "Valid amount is required"])
    ELSE IF r.readerId = ""
    THEN Respond(400, [status |-> "error",
                       message |-> "Reader ID is required"])
    ELSE Call("terminal.readers.retrieve", [id |-> r.readerId])
  ELSE IF ~out.ok THEN Caught(out.error)
  ELSE IF at = "terminal.readers.retrieve" THEN
    IF out.value = Null
    THEN Respond(404, [status |-> "error", message |-> "Reader not found"])
    ELSE IF ~Simulated(r) /\ out.value.status # "online"
    THEN Respond(400, [status |-> "error",
                       message |-> "Reader is not online"])
    ELSE Call("paymentIntents.create",
           [amount |-> ToCents(r.amount), currency |-> Currency(r),
            payment_method_types |-> <<"card_present">>,
            capture_method |-> "automatic",
            metadata |-> [readerId |-> r.readerId]])
  ELSE Respond(200, [status |-> "success", paymentIntent |-> out.value])

createPaymentIntent(r, at, out, loc) ==
  IF at = "start" THEN
    IF InvalidAmount(r)
    THEN Respond(400, [status |-> "error",
                       message |-> "Valid amount is required"])
    ELSE IF r.readerId = ""
    THEN Respond(400, [status |-> "error",
                       message |-> "Reader ID is required"])
    ELSE Call("terminal.readers.retrieve", [id |-> r.readerId])
  ELSE IF ~out.ok THEN Caught(out.error)
  ELSE IF at = "terminal.readers.retrieve" THEN
    IF out.value = Null
    THEN Respond(404, [status |-> "error", message |-> "Reader not found"])
    ELSE IF ~Simulated(r) /\ out.value.status # "online"
    THEN Respond(400, [status |-> "error",
                       message |-> "Reader is not online"])
    ELSE Call("paymentIntents.create",
           [amount |-> ToCents(r.amount), currency |-> Currency(r),
            payment_method_types |-> <<"card_present">>,
            capture_method |-> "manual",
            metadata |-> [readerId |-> r.readerId]])
  ELSE Respond(200, [status |-> "success", paymentIntent |-> out.value])

\* capturePayment looking the intent up before it captures it.
capturePayment_RetrieveFirst(r, at, out, loc) ==
  IF at = "start"
  THEN Call("paymentIntents.retrieve", [id |-> r.paymentIntentId])
  ELSE IF ~out.ok THEN Caught(out.error)
  ELSE IF at = "paymentIntents.retrieve"
  THEN Call("paymentIntents.capture", [id |-> r.paymentIntentId])
  ELSE Respond(200, [status |-> "success", paymentIntent |-> out.value])

capturePayment(r, at, out, loc) ==
  IF at = "start"
  THEN Call("paymentIntents.capture", [id |-> r.paymentIntentId])
  ELSE IF ~out.ok THEN Caught(out.error)
  ELSE Respond(200, [status |-> "success", paymentIntent |-> out.value])

\* cancelPayment looking the intent up when the cancellation failed.
cancelPayment_LookupOnError(r, at, out, loc) ==
  IF at = "start"
  THEN Call("paymentIntents.cancel", [id |-> r.paymentIntentId])
  ELSE IF at = "paymentIntents.cancel" /\ ~out.ok
  THEN Call("paymentIntents.retrieve", [id |-> r.paymentIntentId])
  ELSE IF ~out.ok THEN Caught(out.error)
  ELSE Respond(200, [status |-> "success", paymentIntent |-> out.value])

cancelPayment(r, at, out, loc) ==
  IF at = "start"
  THEN Call("paymentIntents.cancel", [id |-> r.paymentIntentId])
  ELSE IF ~out.ok THEN Caught(out.error)
  ELSE Respond(200, [status |-> "success", paymentIntent |-> out.value])

\* The summary the webhook handler builds for an event in its `response`
\* variable.
eventSummary(event) ==
  LET o == event.data.object
  IN CASE event.type = "payment_intent.succeeded" ->
            [received |-> TRUE, status |-> "success",
             payment_intent |->
               [id |-> o.id, status |-> o.status, amount |-> o.amount,
                currency |-> o.currency, payment_method |-> o.payment_method,
                created |-> o.created, metadata |-> o.metadata]]
       [] event.type = "payment_intent.payment_failed" ->
            [received |-> TRUE, status |-> "failed",
             payment_intent |->
               [id |-> o.id, status |-> o.status, amount |-> o.amount,
                currency |-> o.currency, error |-> o.last_payment_error,
                created |-> o.created, metadata |-> o.metadata]]
       [] OTHER -> [received |-> TRUE]

\* webhook answering with the summary it built.
webhook_SendsSummary(r, b, at, out, loc) ==
  IF at = "start"
  THEN Call("webhooks.constructEvent",
            [payload |-> b, sigValid |-> r.sigValid,
             wellFormed |-> ~r.malformed, type |-> r.eventType])
  ELSE IF ~out.ok
  THEN Respond(400, [text |-> "Webhook Error: " \o out.error.message])
  ELSE Respond(200, eventSummary(out.value))

\* The webhook handler; b is req.body after every body parser has run.
\* constructEvent is synchronous: the model passes through the same
\* call-and-settle steps, its outcome fixed by the payload and signature.
webhook(r, b, at, out, loc) ==
  IF at = "start"
  THEN Call("webhooks.constructEvent",
            [payload |-> b, sigValid |-> r.sigValid,
             wellFormed |-> ~r.malformed, type |-> r.eventType])
  ELSE IF ~out.ok
  THEN Respond(400, [text |-> "Webhook Error: " \o out.error.message])
  ELSE Respond(200, [received |-> TRUE])

processPayment(r, at, out, loc) ==
  IF at = "start" THEN
    IF r.payment_intent = 0
    THEN Respond(400, [status |-> "error",
                       message |-> "Payment intent ID is required"])
    ELSE Call("terminal.readers.retrieve", [id |-> r.readerId])
  ELSE IF ~out.ok THEN Caught(out.error)
  ELSE IF at = "terminal.readers.retrieve" THEN
    IF out.value = Null
    THEN Respond(404, [status |-> "error", message |-> "Reader not found"])
    ELSE IF out.value.status # "online"
    THEN Respond(400, [status |-> "error",
                       message |-> "Reader is not online"])
    ELSE Call("terminal.readers.processPaymentIntent",
              [id |-> r.readerId, payment_intent |-> r.payment_intent])
  ELSE Respond(200, [status |-> "success", reader |-> out.value])

simulatePayment(r, at, out, loc) ==
  IF at = "start" THEN Call("terminal.readers.retrieve", [id |-> r.readerId])
  ELSE IF ~out.ok THEN Caught(out.error)
  ELSE IF at = "terminal.readers.retrieve" THEN
    IF out.value = Null
    THEN Respond(404, [status |-> "error", message |-> "Reader not found"])
    ELSE Call("testHelpers.terminal.readers.presentPaymentMethod",
              [id |-> r.readerId])
  ELSE Respond(200, [status |-> "success", reader |-> out.value])

\* createAndProcessPayment validating the amount after the reader lookup.
createAndProcessPayment_LateValidation(r, at, out, loc) ==
  IF at = "start"
  THEN Call("terminal.readers.retrieve", [id |-> r.readerId])
  ELSE IF ~out.ok THEN Caught(out.error)
  ELSE IF at = "terminal.readers.retrieve" THEN
    IF InvalidAmount(r)
    THEN Respond(400, [status |-> "error",
                       message |-> "Valid amount is required"])
    ELSE IF out.value = Null
    THEN Respond(404, [status |-> "error", message |-> "Reader not found"])
    ELSE IF ~Simulated(r) /\ out.value.status # "online"
    THEN Respond(400, [status |-> "error",
                       message |-> "Reader is not online"])
    ELSE Call("paymentIntents.create",
           [amount |-> ToCents(r.amount), currency |-> Currency(r),
            payment_method_types |-> <<"card_present">>,
            capture_method |-> "manual",
            metadata |-> [readerId |-> r.readerId]])
  ELSE IF at = "paymentIntents.create"
  THEN Call("terminal.readers.processPaymentIntent",
            [id |-> r.readerId, payment_intent |-> out.value.id])
  ELSE Respond(200, [status |-> "success",
                     paymentIntent |-> loc.paymentIntent,
                     reader |-> out.value])

\* createAndProcessPayment processing the payment_intent of the request body,
\* as process-payment does.
createAndProcessPayment_BodyIntent(r, at, out, loc) ==
  IF at = "start" THEN
    IF InvalidAmount(r)
    THEN Respond(400, [status |-> "error",
                       message |-> "Valid amount is required"])
    ELSE Call("terminal.readers.retrieve", [id |-> r.readerId])
  ELSE IF ~out.ok THEN Caught(out.error)
  ELSE IF at = "terminal.readers.retrieve" THEN
    IF out.value = Null
    THEN Respond(404, [status |-> "error", message |-> "Reader not found"])
    ELSE IF ~Simulated(r) /\ out.value.status # "online"
    THEN Respond(400, [status |-> "error",
                       message |-> "Reader is not online"])
    ELSE Call("paymentIntents.create",
           [amount |-> ToCents(r.amount), currency |-> Currency(r),
            payment_method_types |-> <<"card_present">>,
            capture_method |-> "manual",
            metadata |-> [readerId |-> r.readerId]])
  ELSE IF at = "paymentIntents.create"
  THEN Call("terminal.readers.processPaymentIntent",
            [id |-> r.readerId, payment_intent |-> r.payment_intent])
  ELSE Respond(200, [status |-> "success",
                     paymentIntent |-> loc.paymentIntent,
                     reader |-> out.value])

\* createAndProcessPayment cancelling the intent it created when processing
\* failed.
createAndProcessPayment_CancelOnFailure(r, at, out, loc) ==
  IF at = "start" THEN
    IF InvalidAmount(r)
    THEN Respond(400, [status |-> "error",
                       message |-> "Valid amount is required"])
    ELSE Call("terminal.readers.retrieve", [id |-> r.readerId])
  ELSE IF at = "terminal.readers.processPaymentIntent" /\ ~out.ok
  THEN Call("paymentIntents.cancel", [id |-> loc.paymentIntent.id])
  ELSE IF ~out.ok THEN Caught(out.error)
  ELSE IF at = "terminal.readers.retrieve" THEN
    IF out.value = Null
    THEN Respond(404, [status |-> "error", message |-> "Reader not found"])
    ELSE IF ~Simulated(r) /\ out.value.status # "online"
    THEN Respond(400, [status |-> "error",
                       message |-> "Reader is not online"])
    ELSE Call("paymentIntents.create",
           [amount |-> ToCents(r.amount), currency |-> Currency(r),
            payment_method_types |-> <<"card_present">>,
            capture_method |-> "manual",
            metadata |-> [readerId |-> r.readerId]])
  ELSE IF at = "paymentIntents.create"
  THEN Call("terminal.readers.processPaymentIntent",
            [id |-> r.readerId, payment_intent |-> out.value.id])
  ELSE IF at = "paymentIntents.cancel"
  THEN Respond(500, [status |-> "error",
                     message |-> "Payment could not be processed"])
  ELSE Respond(200, [status |-> "success",
                     paymentIntent |-> loc.paymentIntent,
                     reader |-> out.value])

createAndProcessPayment(r, at, out, loc) ==
  IF at = "start" THEN
    IF InvalidAmount(r)
    THEN Respond(400, [status |-> "error",
                       message |-> "Valid amount is required"])
    ELSE Call("terminal.readers.retrieve", [id |-> r.readerId])
  ELSE IF ~out.ok THEN Caught(out.error)
  ELSE IF at = "terminal.readers.retrieve" THEN
    IF out.value = Null
    THEN Respond(404, [status |-> "error", message |-> "Reader not found"])
    ELSE IF ~Simulated(r) /\ out.value.status # "online"
    THEN Respond(400, [status |-> "error",
                       message |-> "Reader is not online"])
    ELSE Call("paymentIntents.create",
           [amount |-> ToCents(r.amount), currency |-> Currency(r),
            payment_method_types |-> <<"card_present">>,
            capture_method |-> "manual",
            metadata |-> [readerId |-> r.readerId]])
  ELSE IF at = "paymentIntents.create"
  THEN Call("terminal.readers.processPaymentIntent",
            [id |-> r.readerId, payment_intent |-> out.value.id])
  ELSE Respond(200, [status |-> "success",
                     paymentIntent |-> loc.paymentIntent,
                     reader |-> out.value])

paymentStatus(r, at, out, loc) ==
  IF at = "start"
  THEN Call("paymentIntents.retrieve", [id |-> r.paymentIntentId])
  ELSE IF ~out.ok THEN Caught(out.error)
  ELSE IF out.value = Null
  THEN Respond(404, [status |-> "error",
                     message |-> "Payment intent not found"])
  ELSE Respond(200, [status |-> "success",
         payment_intent |->
           [id |-> out.value.id, status |-> out.value.status,
            amount |-> out.value.amount, currency |-> out.value.currency,
            payment_method |-> out.value.payment_method,
            created |-> out.value.created,
            metadata |-> out.value.metadata,
            last_payment_error |-> out.value.last_payment_error]])

\* The handler named h, run from `at`.
Handle(h, r, b, at, out, loc) ==
  CASE h = "health" -> health(r, at, out, loc)
    [] h = "listReaders" -> listReaders(r, at, out, loc)
    [] h = "register" -> register(r, at, out, loc)
    [] h = "getReader" -> getReader(r, at, out, loc)
    [] h = "createPaymentIntent" -> createPaymentIntent(r, at, out, loc)
    [] h = "capturePayment" -> capturePayment(r, at, out, loc)
    [] h = "cancelPayment" -> cancelPayment(r, at, out, loc)
    [] h = "webhook" -> webhook(r, b, at, out, loc)
    [] h = "processPayment" -> processPayment(r, at, out, loc)
    [] h = "simulatePayment" -> simulatePayment(r, at, out, loc)
    [] h = "createAndProcessPayment"
         -> createAndProcessPayment(r, at, out, loc)
    [] h = "paymentStatus" -> paymentStatus(r, at, out, loc)
    [] OTHER -> notFound

----------------------------------------------------------------------------
\* The Stripe SDK, as the handlers meet it

Reader(id, status) == [id |-> id, object |-> "terminal.reader",
                       status |-> status]

\* What Stripe reports of a stored intent.  Stripe's store is kept as the
\* status of each intent; the fields the store does not keep are fixed.
IntentView(id, status) ==
  [id |-> id, object |-> "payment_intent", status |-> status,
   amount |-> 100, currency |-> defaultCurrency, payment_method |-> Null,
   created |-> 0, metadata |-> [readerId |-> "tmr_1"],
   last_payment_error |-> Null]

NotFoundError == [type |-> "StripeInvalidRequestError",
                  code |-> "resource_missing",
                  message |-> "No such resource"]

ConnectionError == [type |-> "StripeConnectionError",
                    code |-> "none",
                    message |-> "An error occurred with our connection to Stripe"]

SignatureError == [type |-> "StripeSignatureVerificationError",
                   code |-> "none",
                   message |-> "No signatures found matching the expected signature for payload"]

ParseError == [type |-> "SyntaxError", code |-> "none",
               message |-> "Unexpected token in JSON"]

Exists(ints, id) == id \in 1..Len(ints)

Open(ints, id) == Exists(ints, id) /\ ints[id] = "requires_payment_method"

\* The ways a pending call can resolve: the value, and Stripe's intents
\* afterwards.  constructEvent accepts only the raw bytes that were signed,
\* and parses them as JSON once the signature has matched.
Resolutions(call, ints) ==
  LET m == call.method
      a == call.args
      same(v) == [value |-> v, intents |-> ints]
  IN CASE m = "terminal.readers.list" ->
            {same([data |-> <<>>]),
             same([data |-> <<Reader("tmr_1", "online")>>])}
       [] m = "terminal.readers.create" ->
            {same([id |-> "tmr_1", object |-> "terminal.reader",
                   status |-> "online", label |-> a.label,
                   location |-> a.location])}
       [] m = "terminal.readers.retrieve" ->
            {same(Reader(a.id, "online")), same(Reader(a.id, "offline")),
             same(Null)}
       [] m = "paymentIntents.create" ->
            IF Len(ints) < MaxIntents
            THEN {[value |-> [id |-> Len(ints) + 1,
                              object |-> "payment_intent",
                              status |-> "requires_payment_method",
                              amount |-> a.amount, currency |-> a.currency,
                              payment_method_types |-> a.payment_method_types,
                              capture_method |-> a.capture_method,
                              metadata |-> a.metadata],
                   intents |-> Append(ints, "requires_payment_method")]}
            ELSE {}
       [] m = "paymentIntents.capture" ->
            IF Open(ints, a.id)
            THEN {[value |-> IntentView(a.id, "succeeded"),
                   intents |-> [ints EXCEPT ![a.id] = "succeeded"]]}
            ELSE {}
       [] m = "paymentIntents.cancel" ->
            IF Open(ints, a.id)
            THEN {[value |-> IntentView(a.id, "canceled"),
                   intents |-> [ints EXCEPT ![a.id] = "canceled"]]}
            ELSE {}
       [] m = "paymentIntents.retrieve" ->
            IF Exists(ints, a.id)
            THEN {same(IntentView(a.id, ints[a.id]))}
            ELSE {}
       [] m = "terminal.readers.processPaymentIntent" ->
            IF Open(ints, a.payment_intent)
            THEN {same([id |-> a.id, object |-> "terminal.reader",
                        status |-> "online",
                        action |-> [type |-> "process_payment_intent",
                                    payment_intent |-> a.payment_intent]])}
            ELSE {}
       [] m = "testHelpers.terminal.readers.presentPaymentMethod" ->
            {same(Reader(a.id, "online"))}
       [] m = "webhooks.constructEvent" ->
            IF a.payload = "buffer" /\ a.sigValid /\ a.wellFormed
            THEN {same([type |-> a.type,
                        data |-> [object |-> IntentView(1, "succeeded")]])}
            ELSE {}
       [] OTHER -> {}

\* The ways a pending call can fail.
Rejections(call, ints) ==
  LET m == call.method
      a == call.args
  IN CASE m = "webhooks.constructEvent" ->
            IF a.payload = "buffer" /\ a.sigValid
            THEN IF a.wellFormed THEN {} ELSE {ParseError}
            ELSE {SignatureError}
       [] m \in {"terminal.readers.retrieve",
                 "testHelpers.terminal.readers.presentPaymentMethod"} ->
            {NotFoundError, ConnectionError}
       [] m \in {"paymentIntents.capture", "paymentIntents.cancel",
                 "paymentIntents.retrieve"} ->
            IF Exists(ints, a.id) THEN {ConnectionError}
            ELSE {NotFoundError}
       [] m = "terminal.readers.processPaymentIntent" ->
            IF Exists(ints, a.payment_intent) THEN {ConnectionError}
            ELSE {NotFoundError}
       [] OTHER -> {ConnectionError}

----------------------------------------------------------------------------
\* The state machine

\* The other requests the event loop may hold besides the one whose handler
\* runs: with one of them, two requests are in flight at a time.
Background == {1}

\* What belongs to one request: its req and res objects and the closure of
\* its handler invocation.
Context(r, b, p, cs, loc, rs) ==
  [req |-> r, body |-> b, pc |-> p, calls |-> cs, locals |-> loc, res |-> rs]

IdleContext == Context(NoReq, "none", "idle", <<>>, NoLocals, NoRes)

Init ==
  /\ nodeEnv \in NodeEnvs
  /\ req = NoReq
  /\ body = "none"
  /\ pc = "idle"
  /\ calls = <<>>
  /\ locals = NoLocals
  /\ res = NoRes
  /\ intents = <<>>
  /\ others = [k \in Background |-> IdleContext]

Pending == calls[Len(calls)]

Settled(outcome, result) ==
  [calls EXCEPT ![Len(calls)] =
     [@ EXCEPT !.outcome = outcome, !.result = result]]

\* The handler moves to `step`: it awaits the call or sends the response.
Take(step, before) ==
  IF step.kind = "call"
  THEN /\ calls' = Append(before, [method |-> step.method,
                                   args |-> step.args,
                                   outcome |-> "pending", result |-> Null])
       /\ pc' = "await"
       /\ res' = NoRes
  ELSE /\ calls' = before
       /\ pc' = "responded"
       /\ res' = [code |-> step.code, body |-> step.body]

\* A request arrives: the global body parsers run, then the route is looked
\* up and its handler runs up to its first await or its response.
Receive(r) ==
  /\ pc = "idle"
  /\ req' = r
  /\ locals' = NoLocals
  /\ LET parsed == JsonParser(r)
         h == HandlerOf(r)
     IN IF parsed = "error"
        THEN /\ body' = parsed
             /\ Take(errorMiddleware(nodeEnv, ParseError), <<>>)
        ELSE LET b == IF h = "webhook" THEN RawParser(r, parsed) ELSE parsed
             IN /\ body' = b
                /\ Take(Handle(h, r, b, "start", NoOut, NoLocals), <<>>)
  /\ UNCHANGED <<nodeEnv, intents, others>>

\* const paymentIntent = await stripe.paymentIntents.create(...)
Bind(method, value, loc) ==
  IF method = "paymentIntents.create"
  THEN [loc EXCEPT !.paymentIntent = value]
  ELSE loc

\* The pending SDK call resolves and the handler runs on.
SdkResolve ==
  /\ pc = "await"
  /\ \E o \in Resolutions(Pending, intents) :
       LET loc == Bind(Pending.method, o.value, locals)
       IN /\ intents' = o.intents
          /\ locals' = loc
          /\ Take(Handle(HandlerOf(req), req, body, Pending.method,
                         [ok |-> TRUE, value |-> o.value], loc),
                  Settled("resolved", o.value))
  /\ UNCHANGED <<nodeEnv, req, body, others>>

\* The pending SDK call fails and the handler's catch block runs.
SdkReject ==
  /\ pc = "await"
  /\ \E e \in Rejections(Pending, intents) :
       Take(Handle(HandlerOf(req), req, body, Pending.method,
                   [ok |-> FALSE, error |-> e], locals),
            Settled("rejected", e))
  /\ UNCHANGED <<nodeEnv, req, body, locals, intents, others>>

\* The response has gone out; the server is ready for the next request.
Finish ==
  /\ pc = "responded"
  /\ pc' = "idle"
  /\ req' = NoReq
  /\ body' = "none"
  /\ calls' = <<>>
  /\ locals' = NoLocals
  /\ res' = NoRes
  /\ UNCHANGED <<nodeEnv, intents, others>>

Next ==
  \/ \E r \in Requests : Receive(r)
  \/ SdkResolve
  \/ SdkReject
  \/ Finish

Spec == Init /\ [][Next]_vars

----------------------------------------------------------------------------
\* Concurrent requests.  Node runs one handler at a time and changes handler
\* only where the running one awaits or has returned; the requests not
\* running wait in `others`.

\* The bindings a handler finds when it runs again after an await: those of
\* its own invocation (const declarations inside the handler), whatever
\* other handlers bound meanwhile.
Resume_ModuleScope(own, current) == current

Resume(own, current) == own

\* The requests served concurrently.
ConcRequests ==
  {r \in CreateAndProcessReqs :
     r.hasAmount /\ r.amount = 1500 /\ r.simulated \in {"absent", "true"}}
  \cup {r \in CreateIntentReqs :
          /\ r.hasAmount /\ r.amount = 1500 /\ r.readerId = "tmr_1"
          /\ r.simulated = "true"}
  \cup IntentIdReqs("/capture-payment/:paymentIntentId")
  \cup IntentIdReqs("/cancel-payment/:paymentIntentId")
  \cup ListReqs
  \cup {r \in WebhookReqs :
          /\ r.contentType = "application/json" /\ ~r.malformed
          /\ r.sigValid /\ r.eventType = "payment_intent.succeeded"}

\* The event loop turns to the request k: the running handler is at an
\* await (never inside the synchronous constructEvent) or has returned.
Switch(k) ==
  /\ pc = "await" => Pending.method # "webhooks.constructEvent"
  /\ others' = [others EXCEPT
                  ![k] = Context(req, body, pc, calls, locals, res)]
  /\ req' = others[k].req
  /\ body' = others[k].body
  /\ pc' = others[k].pc
  /\ calls' = others[k].calls
  /\ locals' = Resume(others[k].locals, locals)
  /\ res' = others[k].res
  /\ UNCHANGED <<nodeEnv, intents>>

NextConc ==
  \/ \E r \in ConcRequests : Receive(r)
  \/ SdkResolve
  \/ SdkReject
  \/ Finish
  \/ \E k \in Background : Switch(k)

ConcSpec == Init /\ [][NextConc]_vars

----------------------------------------------------------------------------
\* The webhook route of the payment router taken by itself: a delivery whose
\* body no earlier middleware has read reaches the route's own express.raw
\* and then the handler.

Deliver(r) ==
  /\ pc = "idle"
  /\ req' = r
  /\ locals' = NoLocals
  /\ LET b == RawParser(r, "empty")
     IN /\ body' = b
        /\ Take(Handle(paymentRoutes(r.verb, r.route), r, b, "start",
                       NoOut, NoLocals), <<>>)
  /\ UNCHANGED <<nodeEnv, intents, others>>

NextRouter ==
  \/ \E r \in WebhookReqs : Deliver(r)
  \/ SdkResolve
  \/ SdkReject
  \/ Finish

RouterSpec == Init /\ [][NextRouter]_vars

----------------------------------------------------------------------------
\* Vocabulary of the properties

Serving == pc # "idle"

Responded == pc = "responded"

Handler == HandlerOf(req)

MethodsCalled == [i \in DOMAIN calls |-> calls[i].method]

Called(method) == \E i \in DOMAIN calls : calls[i].method = method

IsPrefix(s, t) ==
  /\ Len(s) <= Len(t)
  /\ \A i \in DOMAIN s : s[i] = t[i]

\* readers.retrieve was the first call and gave a reader.
RetrievedReader ==
  /\ Len(calls) >= 1
  /\ calls[1].method = "terminal.readers.retrieve"
  /\ calls[1].outcome = "resolved"
  /\ calls[1].result # Null

\* readers.retrieve was the first call and gave no reader: it returned
\* nothing or failed with the not-found error.
RetrievedNoReader ==
  /\ Len(calls) >= 1
  /\ calls[1].method = "terminal.readers.retrieve"
  /\ \/ calls[1].outcome = "resolved" /\ calls[1].result = Null
     \/ calls[1].outcome = "rejected" /\ calls[1].result = NotFoundError

ErrorJson(message) == [status |-> "error", message |-> message]

----------------------------------------------------------------------------
\* C1: a webhook delivery with well-formed JSON is answered 200
\* {received: true} exactly when its Stripe signature is valid for the raw
\* body sent, and 400 otherwise.
C1_WebhookAcceptsValidSignature ==
  (/\ Responded
   /\ req.verb = "POST" /\ req.prefix = "/api/payments"
   /\ req.route = "/webhook"
   /\ req.contentType = "application/json" /\ ~req.malformed)
  => IF req.sigValid
     THEN res = [code |-> 200, body |-> [received |-> TRUE]]
     ELSE res.code = 400

\* C2: handling one request invokes a single SDK method.
C2_SingleSdkMethod ==
  Cardinality({calls[i].method : i \in DOMAIN calls}) <= 1

\* The SDK methods a handler may call, in the order it calls them.
MethodsOf(h) ==
  CASE h = "listReaders" -> <<"terminal.readers.list">>
    [] h = "register" -> <<"terminal.readers.create">>
    [] h = "getReader" -> <<"terminal.readers.retrieve">>
    [] h = "capturePayment" -> <<"paymentIntents.capture">>
    [] h = "cancelPayment" -> <<"paymentIntents.cancel">>
    [] h = "webhook" -> <<"webhooks.constructEvent">>
    [] h = "paymentStatus" -> <<"paymentIntents.retrieve">>
    [] h = "createPaymentIntent" ->
         <<"terminal.readers.retrieve", "paymentIntents.create">>
    [] h = "processPayment" ->
         <<"terminal.readers.retrieve",
           "terminal.readers.processPaymentIntent">>
    [] h = "simulatePayment" ->
         <<"terminal.readers.retrieve",
           "testHelpers.terminal.readers.presentPaymentMethod">>
    [] h = "createAndProcessPayment" ->
         <<"terminal.readers.retrieve", "paymentIntents.create",
           "terminal.readers.processPaymentIntent">>
    [] OTHER -> <<>>

\* C2 (amended): a handler invokes a single SDK method, except that
\* create-payment-intent, process-payment and simulate-payment first call
\* readers.retrieve and then one more method, and create-and-process-payment
\* calls readers.retrieve, paymentIntents.create and
\* readers.processPaymentIntent.
C2_MethodsPerEndpoint ==
  Serving => IsPrefix(MethodsCalled, MethodsOf(Handler))

C2_Witness ==
  /\ Responded
  /\ Handler = "createAndProcessPayment"
  /\ res.code = 200
  /\ Len(calls) = 3

\* C3: the amount passed to paymentIntents.create equals the request's
\* amount (the request's amount is already in cents).
C3_AmountPassedInCents ==
  \A i \in DOMAIN calls :
    calls[i].method = "paymentIntents.create"
      => calls[i].args.amount * 1000 = req.amount

\* C4: without the simulated flag, paymentIntents.create is called only
\* after readers.retrieve gave an online reader, and a reader that is not
\* online is answered 400 'Reader is not online'; with simulated true the
\* intent is created whatever the status of the reader retrieved.
C4_OnlineCheck ==
  (Serving /\ Handler \in {"createPaymentIntent", "createAndProcessPayment"})
  => /\ (~Simulated(req) /\ Called("paymentIntents.create"))
          => (RetrievedReader /\ calls[1].result.status = "online")
     /\ (~Simulated(req) /\ RetrievedReader
           /\ calls[1].result.status # "online")
          => /\ res = [code |-> 400,
                       body |-> ErrorJson("Reader is not online")]
             /\ Len(calls) = 1
     /\ (Simulated(req) /\ RetrievedReader)
          => /\ Len(calls) >= 2
             /\ calls[2].method = "paymentIntents.create"

C4_Witness ==
  /\ Responded
  /\ Handler = "createPaymentIntent"
  /\ ~Simulated(req)
  /\ RetrievedReader
  /\ calls[1].result.status = "offline"
  /\ res.code = 400

\* C5: when readers.retrieve yields no reader (it returns nothing or fails
\* with its not-found error), the answer is 404 'Reader not found' and no
\* payment intent is created or processed.
C5_MissingReaderIs404 ==
  (/\ Responded
   /\ Handler \in {"createPaymentIntent", "processPayment",
                   "simulatePayment", "createAndProcessPayment"}
   /\ RetrievedNoReader)
  => /\ res = [code |-> 404, body |-> ErrorJson("Reader not found")]
     /\ Len(calls) = 1

\* C6: register with simulated true always calls readers.create with
\* registration_code 'simulated-wpe', whatever code was supplied, the label
\* defaulting to 'Simulated Reader' and the location to 'test_mode'; with
\* simulated absent or false and no registration_code it answers 400 and
\* readers.create is not called.
C6_RegisterSimulated ==
  (Serving /\ Handler = "register")
  => /\ req.simulated = "true"
          => /\ Len(calls) = 1
             /\ calls[1].method = "terminal.readers.create"
             /\ calls[1].args =
                  [registration_code |-> "simulated-wpe",
                   label |-> IF req.label = "" THEN "Simulated Reader"
                             ELSE req.label,
                   location |-> IF req.location = "" THEN "test_mode"
                                ELSE req.location]
     /\ (req.simulated \in {"absent", "false"} /\ req.registration_code = "")
          => /\ calls = <<>>
             /\ res.code = 400

C6_Witness ==
  /\ Responded
  /\ Handler = "register"
  /\ req.simulated = "true"
  /\ req.registration_code = "REG-CODE"
  /\ req.label = ""
  /\ Len(calls) = 1
  /\ calls[1].args.registration_code = "simulated-wpe"
  /\ calls[1].outcome = "resolved"

\* C7: a register request whose readers.create succeeded is answered with
\* status 200 and the body {status: 'success', reader}.
C7_RegisterResponds200 ==
  (/\ Responded
   /\ Handler = "register"
   /\ Len(calls) = 1
   /\ calls[1].outcome = "resolved")
  => res = [code |-> 200,
            body |-> [status |-> "success", reader |-> calls[1].result]]

PaymentStatusFields ==
  {"id", "status", "amount", "currency", "payment_method", "created",
   "metadata"}

\* C8: GET /api/payment-status/{paymentIntentId} for an existing intent
\* calls paymentIntents.retrieve with that id and, the call succeeding,
\* answers 200 with status 'success' and a payment_intent object holding
\* id, status, amount, currency, payment_method, created and metadata.
C8_PaymentStatusServed ==
  (/\ Responded
   /\ req.verb = "GET" /\ req.prefix = "/api/payment-status"
   /\ req.route = "/:paymentIntentId"
   /\ Exists(intents, req.paymentIntentId))
  => /\ Len(calls) = 1
     /\ calls[1].method = "paymentIntents.retrieve"
     /\ calls[1].args.id = req.paymentIntentId
     /\ calls[1].outcome = "resolved"
          => /\ res.code = 200
             /\ res.body.status = "success"
             /\ PaymentStatusFields \subseteq DOMAIN res.body.payment_intent
             /\ res.body.payment_intent.id = req.paymentIntentId

\* C9: no handler retries: each SDK call site runs at most once for a
\* request, and a failed SDK call is the last call of the request, followed
\* at once by the handler's error response.
C9_NoRetry ==
  /\ \A i, j \in DOMAIN calls :
       i # j => calls[i].method # calls[j].method
  /\ \A i \in DOMAIN calls :
       calls[i].outcome = "rejected"
         => /\ i = Len(calls)
            /\ Responded
            /\ res.code = IF Handler = "webhook" THEN 400 ELSE 500
            /\ Handler # "webhook" => res.body = ErrorJson(calls[i].result.message)

C9_Witness ==
  /\ Responded
  /\ Handler = "createAndProcessPayment"
  /\ Len(calls) = 3
  /\ calls[3].outcome = "rejected"
  /\ res.code = 500

\* C10: validation precedes every SDK call: create-payment-intent with the
\* amount missing, zero or negative or the readerId missing,
\* create-and-process-payment with the amount missing, zero or negative,
\* and process-payment with payment_intent missing are answered 400 with
\* status 'error' and no SDK call is made.  (The requests are those whose
\* body the JSON parser accepted, so that the handler is entered.)
C10_ValidationFirst ==
  (/\ Serving
   /\ body = "parsed"
   /\ \/ /\ Handler = "createPaymentIntent"
         /\ (~req.hasAmount \/ req.amount <= 0 \/ req.readerId = "")
      \/ /\ Handler = "createAndProcessPayment"
         /\ (~req.hasAmount \/ req.amount <= 0)
      \/ /\ Handler = "processPayment"
         /\ req.payment_intent = 0)
  => /\ calls = <<>>
     /\ Responded
     /\ res.code = 400
     /\ res.body.status = "error"

C10_Witness ==
  /\ Responded
  /\ Handler = "createAndProcessPayment"
  /\ req.hasAmount /\ req.amount < 0
  /\ res.code = 400
  /\ calls = <<>>

\* The request ended in an error: the JSON parser refused the body or the
\* last SDK call failed.
AnsweredError ==
  /\ Responded
  /\ \/ body = "error"
     \/ Len(calls) > 0 /\ calls[Len(calls)].outcome = "rejected"

UnderlyingError ==
  IF body = "error" THEN ParseError ELSE calls[Len(calls)].result

\* The response body holds the message msg of the underlying error.
Carries(msg) ==
  \/ "message" \in DOMAIN res.body /\ res.body.message = msg
  \/ "error" \in DOMAIN res.body /\ res.body.error = msg
  \/ "text" \in DOMAIN res.body /\ res.body.text = "Webhook Error: " \o msg

\* C11: an error response holds the underlying error's message when
\* NODE_ENV is 'development' and holds no underlying error message for any
\* other NODE_ENV, whether the error middleware or a handler's catch block
\* answered.
C11_ErrorDetailOnlyInDevelopment ==
  AnsweredError
    => (Carries(UnderlyingError.message) <=> nodeEnv = "development")

CreateAndProcessOrder ==
  <<"terminal.readers.retrieve", "paymentIntents.create",
    "terminal.readers.processPaymentIntent">>

\* C13: create-and-process-payment calls readers.retrieve,
\* paymentIntents.create and readers.processPaymentIntent in that order;
\* processPaymentIntent is called only after paymentIntents.create
\* succeeded, on the reader of the request path and with the id of the
\* intent this request created; 200 is sent only after all three calls
\* succeeded and carries that intent and the processed reader.
C13_CreateThenProcess ==
  (Serving /\ Handler = "createAndProcessPayment")
  => /\ IsPrefix(MethodsCalled, CreateAndProcessOrder)
     /\ Len(calls) >= 3
          => /\ calls[2].outcome = "resolved"
             /\ calls[3].args.id = req.readerId
             /\ calls[3].args.payment_intent = calls[2].result.id
     /\ (Responded /\ res.code = 200)
          => /\ Len(calls) = 3
             /\ \A i \in 1..3 : calls[i].outcome = "resolved"
             /\ res.body = [status |-> "success",
                            paymentIntent |-> calls[2].result,
                            reader |-> calls[3].result]

C13_Witness ==
  /\ Responded
  /\ Handler = "createAndProcessPayment"
  /\ res.code = 200
  /\ req.readerId = "tmr_2"
  /\ Len(calls) = 3
  /\ calls[3].args.payment_intent = 2
  /\ res.body.paymentIntent.id = 2

\* C14: when paymentIntents.create succeeded and processPaymentIntent then
\* failed, create-and-process-payment answers 500 with the error message,
\* makes no paymentIntents.cancel or other further call, its response does
\* not hold the intent or its id, and the created intent still exists,
\* uncancelled.
C14_NoCompensation ==
  (/\ Serving
   /\ Handler = "createAndProcessPayment"
   /\ Len(calls) >= 3
   /\ calls[2].outcome = "resolved"
   /\ calls[3].outcome = "rejected")
  => /\ Responded
     /\ Len(calls) = 3
     /\ ~Called("paymentIntents.cancel")
     /\ res = [code |-> 500, body |-> ErrorJson(calls[3].result.message)]
     /\ Exists(intents, calls[2].result.id)
     /\ intents[calls[2].result.id] = "requires_payment_method"

C14_Witness ==
  /\ Responded
  /\ Handler = "createAndProcessPayment"
  /\ Len(calls) = 3
  /\ calls[2].outcome = "resolved"
  /\ calls[3].outcome = "rejected"
  /\ res.code = 500
  /\ Exists(intents, calls[2].result.id)

Captured(ints) == {i \in DOMAIN ints : ints[i] = "succeeded"}

\* C15: every intent this API creates has capture_method 'manual',
\* payment_method_types ['card_present'] and metadata.readerId equal to the
\* request's reader id; paymentIntents.capture is called only by the
\* capture-payment handler, with the id of its request, and an intent
\* becomes captured only in a step of a capture-payment request naming it.
C15_ManualCaptureOnly ==
  /\ [](\A i \in DOMAIN calls :
          /\ calls[i].method = "paymentIntents.create"
               => /\ calls[i].args.capture_method = "manual"
                  /\ calls[i].args.payment_method_types = <<"card_present">>
                  /\ calls[i].args.metadata = [readerId |-> req.readerId]
          /\ calls[i].method = "paymentIntents.capture"
               => /\ Handler = "capturePayment"
                  /\ calls[i].args.id = req.paymentIntentId)
  /\ [][\A i \in Captured(intents') \ Captured(intents) :
          /\ Serving
          /\ Handler = "capturePayment"
          /\ req.paymentIntentId = i]_vars

C15_Witness ==
  /\ Responded
  /\ Handler = "capturePayment"
  /\ res.code = 200
  /\ req.paymentIntentId \in Captured(intents)

\* The bindings a handler running alone holds after the first i calls of cs.
RECURSIVE LocalsAfter(_, _)
LocalsAfter(cs, i) ==
  IF i = 0 THEN NoLocals
  ELSE IF cs[i].outcome = "resolved"
  THEN Bind(cs[i].method, cs[i].result, LocalsAfter(cs, i - 1))
  ELSE LocalsAfter(cs, i - 1)

\* The step the handler of request c.req takes, were it served alone, after
\* the first i SDK calls of c settled as they did.
AloneStep(c, i) ==
  IF i = 0
  THEN IF c.body = "error" THEN errorMiddleware(nodeEnv, ParseError)
       ELSE Handle(HandlerOf(c.req), c.req, c.body, "start", NoOut, NoLocals)
  ELSE Handle(HandlerOf(c.req), c.req, c.body, c.calls[i].method,
              IF c.calls[i].outcome = "resolved"
              THEN [ok |-> TRUE, value |-> c.calls[i].result]
              ELSE [ok |-> FALSE, error |-> c.calls[i].result],
              LocalsAfter(c.calls, i))

\* The calls and the response of the request of context c are those of the
\* same request served alone with the same SDK results.
AsAlone(c) ==
  c.pc # "idle"
  => LET n == Len(c.calls)
     IN /\ \A i \in 1..n :
             /\ AloneStep(c, i - 1) =
                  Call(c.calls[i].method, c.calls[i].args)
             /\ i < n => c.calls[i].outcome # "pending"
        /\ IF n > 0 /\ c.calls[n].outcome = "pending"
           THEN c.pc = "await" /\ c.res = NoRes
           ELSE /\ c.pc = "responded"
                /\ AloneStep(c, n) = Respond(c.res.code, c.res.body)

Running == Context(req, body, pc, calls, locals, res)

\* C12: whatever the interleaving of the requests in flight, each request
\* makes the SDK calls and gets the response it would make and get served
\* alone with the same SDK results.
C12_RequestsIsolated ==
  /\ AsAlone(Running)
  /\ \A k \in Background : AsAlone(others[k])

\* Two create-and-process-payment requests ran interleaved: the one answered
\* created its intent first and was processed after the other had created
\* its own.
C12_Witness ==
  /\ Responded
  /\ Handler = "createAndProcessPayment"
  /\ res.code = 200
  /\ res.body.paymentIntent.id = 1
  /\ \E k \in Background :
       /\ others[k].pc = "await"
       /\ HandlerOf(others[k].req) = "createAndProcessPayment"
       /\ Len(others[k].calls) = 3
       /\ others[k].calls[2].result.id = 2

\* constructEvent returned an event: the delivery passed verification.
Verified ==
  /\ Serving
  /\ Handler = "webhook"
  /\ Len(calls) >= 1
  /\ calls[1].outcome = "resolved"

\* C16: a webhook event that passed signature verification is answered 200
\* with exactly {received: true} whatever its type; the handler calls
\* nothing but constructEvent and changes no state, so every delivery of an
\* event, the first and a repeated one, is answered alike.
C16_WebhookAnswersReceived ==
  /\ [](Verified
          => /\ Responded
             /\ res = [code |-> 200, body |-> [received |-> TRUE]]
             /\ MethodsCalled = <<"webhooks.constructEvent">>)
  /\ [][(Serving /\ Handler = "webhook")
          => /\ intents' = intents
             /\ nodeEnv' = nodeEnv
             /\ others' = others]_vars

C16_Witness ==
  /\ Verified
  /\ Responded
  /\ req.eventType = "payment_intent.succeeded"
  /\ calls[1].result.type = "payment_intent.succeeded"
  /\ res.body = [received |-> TRUE]

====
